---- MODULE Spec2Model ----
(***************************************************************************)
(* Text transformation plugin of ckeditor5-typing                          *)
(* (packages/ckeditor5-typing/src/texttransformation.js).                   *)
(*                                                                         *)
(* A text is a sequence of one-character strings; a character outside      *)
(* ASCII is written by its code point ("U+00A9" is the copyright sign).     *)
(* A JavaScript value is a record with a "type" field: a string             *)
(* [type |-> "string", value |-> name], an object (a transformation         *)
(* description, identified by its reference "ref"), an array, a RegExp,     *)
(* a function, or undefined.                                                *)
(***************************************************************************)
EXTENDS Integers, Sequences, FiniteSets

VARIABLES
    config,      \* editor.config.get( 'typing.transformation' )
    configured,  \* configuredTransformations of init()
    watchers,    \* one TextWatcher per configured transformation: its { from, to }
    pc,          \* "constructed", "idle", "change:data", "pending", "failed"
    error,       \* "none", or the error an operation threw
    text,        \* text of the block the selection is in
    attrs,       \* attrs[i]: the attributes of text[i]
    focus,       \* offset of the (collapsed) selection in the block
    selAttrs,    \* selection.getAttributes()
    pending,     \* model._pendingChanges: the enqueued change callbacks
    emitted,     \* the changes enqueued by the last change:data event
    typed,       \* history: number of user text changes so far
    replaced     \* history: replacements run since the last user text change

vars == <<config, configured, watchers, pc, error, text, attrs, focus, selAttrs,
          pending, emitted, typed, replaced>>

----------------------------------------------------------------------------
(* JavaScript values *)

Undefined == [type |-> "undefined"]
Str(s) == [type |-> "string", value |-> s]
Array(items) == [type |-> "array", items |-> items]
Function == [type |-> "function"]
Description(ref, from, to) == [type |-> "object", ref |-> ref, from |-> from, to |-> to]

Range(s) == {s[i] : i \in 1..Len(s)}

\* Truthiness of the values that occur here: undefined is falsy; objects,
\* arrays and functions are truthy.
Truthy(v) == v.type # "undefined"

\* ToString of undefined is the nine characters of "undefined".
UndefinedString == <<"u", "n", "d", "e", "f", "i", "n", "e", "d">>

\* Properties every plain object inherits from Object.prototype.
ObjectPrototypeKeys ==
    {"constructor", "toString", "valueOf", "hasOwnProperty", "__proto__"}

\* The property key a value is converted to when it indexes an object.
PropertyKey(v) == IF v.type = "string" THEN v.value ELSE "[object Object]"

----------------------------------------------------------------------------
(* The catalog *)

\* Mutant: the quote character is hard-coded.
buildQuotesRegExpDoubleOnly(quoteCharacter) == [type |-> "RegExp", quoteCharacter |-> "\""]

buildQuotesRegExp(quoteCharacter) == [type |-> "RegExp", quoteCharacter |-> quoteCharacter]

TransformationNames ==
    <<"copyright", "registered_trademark", "trademark",
      "one_half", "one_third", "two_thirds", "one_forth", "three_quarters",
      "less_then_or_equal", "greater_then_or_equal", "not_equal",
      "arrow_left", "arrow_right",
      "horizontal_ellipsis", "en_dash", "em_dash",
      "quotes_primary", "quotes_secondary",
      "quotes_primary_en_gb", "quotes_secondary_en_gb",
      "quotes_primary_pl", "quotes_secondary_pl">>

\* The { from, to } of each named transformation.
TransformationFrom(name) ==
    CASE name = "copyright" -> Str(<<"(", "c", ")">>)
      [] name = "registered_trademark" -> Str(<<"(", "r", ")">>)
      [] name = "trademark" -> Str(<<"(", "t", "m", ")">>)
      [] name = "one_half" -> Str(<<"1", "/", "2">>)
      [] name = "one_third" -> Str(<<"1", "/", "3">>)
      [] name = "two_thirds" -> Str(<<"2", "/", "3">>)
      [] name = "one_forth" -> Str(<<"1", "/", "4">>)
      [] name = "three_quarters" -> Str(<<"3", "/", "4">>)
      [] name = "less_then_or_equal" -> Str(<<"<", "=">>)
      [] name = "greater_then_or_equal" -> Str(<<">", "=">>)
      [] name = "not_equal" -> Str(<<"!", "=">>)
      [] name = "arrow_left" -> Str(<<"<", "-">>)
      [] name = "arrow_right" -> Str(<<"-", ">">>)
      [] name = "horizontal_ellipsis" -> Str(<<".", ".", ".">>)
      [] name = "en_dash" -> Str(<<" ", "-", "-", " ">>)
      [] name = "em_dash" -> Str(<<" ", "-", "-", "-", " ">>)
      [] name = "quotes_primary" -> buildQuotesRegExp("\"")
      [] name = "quotes_secondary" -> buildQuotesRegExp("'")
      [] name = "quotes_primary_en_gb" -> buildQuotesRegExp("'")
      [] name = "quotes_secondary_en_gb" -> buildQuotesRegExp("\"")
      [] name = "quotes_primary_pl" -> buildQuotesRegExp("\"")
      [] name = "quotes_secondary_pl" -> buildQuotesRegExp("'")

TransformationTo(name) ==
    CASE name = "copyright" -> <<"U+00A9">>
      [] name = "registered_trademark" -> <<"U+00AE">>
      [] name = "trademark" -> <<"U+2122">>
      [] name = "one_half" -> <<"U+00BD">>
      [] name = "one_third" -> <<"U+2153">>
      [] name = "two_thirds" -> <<"U+2154">>
      [] name = "one_forth" -> <<"U+00BC">>
      [] name = "three_quarters" -> <<"U+00BE">>
      [] name = "less_then_or_equal" -> <<"U+2264">>
      [] name = "greater_then_or_equal" -> <<"U+2265">>
      [] name = "not_equal" -> <<"U+2260">>
      [] name = "arrow_left" -> <<"U+2192">>
      [] name = "arrow_right" -> <<"U+2260">>
      [] name = "horizontal_ellipsis" -> <<"U+2026">>
      [] name = "en_dash" -> <<" ", "U+2013", " ">>
      [] name = "em_dash" -> <<" ", "U+2014", " ">>
      [] name = "quotes_primary" -> <<"$1", "U+201C", "$2", "U+201D">>
      [] name = "quotes_secondary" -> <<"$1", "U+2018", "$2", "U+2019">>
      [] name = "quotes_primary_en_gb" -> <<"$1", "U+2018", "$2", "U+2019">>
      [] name = "quotes_secondary_en_gb" -> <<"$1", "U+201C", "$2", "U+201D">>
      [] name = "quotes_primary_pl" -> <<"$1", "U+201E", "$2", "U+201D">>
      [] name = "quotes_secondary_pl" -> <<"$1", "U+201A", "$2", "U+2019">>

\* TRANSFORMATIONS[ key ]: the description object of a named transformation
\* (each a distinct object, referred to by its name), a function for a key
\* inherited from Object.prototype, undefined otherwise.
TRANSFORMATIONS(key) ==
    IF key \in Range(TransformationNames)
    THEN Description(key, TransformationFrom(key), TransformationTo(key))
    ELSE IF key \in ObjectPrototypeKeys THEN Function ELSE Undefined

GroupNames == <<"symbols", "mathematical", "typography", "quotes">>

GroupMembers(group) ==
    CASE group = "symbols" -> <<"copyright", "registered_trademark", "trademark">>
      [] group = "mathematical" ->
            <<"one_half", "one_third", "two_thirds", "one_forth", "three_quarters",
              "less_then_or_equal", "greater_then_or_equal", "not_equal",
              "arrow_left", "arrow_right">>
      [] group = "typography" -> <<"horizontal_ellipsis", "en_dash", "em_dash">>
      [] group = "quotes" -> <<"quotes_primary", "quotes_secondary">>

\* TRANSFORMATION_GROUPS[ key ]
TRANSFORMATION_GROUPS(key) ==
    IF key \in Range(GroupNames)
    THEN Array([i \in 1..Len(GroupMembers(key)) |-> Str(GroupMembers(key)[i])])
    ELSE IF key \in ObjectPrototypeKeys THEN Function ELSE Undefined

DEFAULT_TRANSFORMATIONS ==
    <<Str("symbols"), Str("mathematical"), Str("typography"), Str("quotes")>>

----------------------------------------------------------------------------
(* The registry: getConfiguredTransformations *)

\* Array.prototype.includes: SameValueZero, so strings by value and objects
\* by reference.
includes(array, v) == \E i \in 1..Len(array) : array[i] = v

\* array.filter( isNotRemoved ), where isNotRemoved is !remove.includes( t )
filter(array, remove) ==
    LET isNotRemoved(transformation) == ~includes(remove, transformation)
    IN  SelectSeq(array, isNotRemoved)

\* Mutant: an array in place of the Set, every value added kept.
ArrayFromSetKeepingAll(added) == added

\* Array.from of the Set that the values of added were added to, in that
\* order: a Set keeps a value once, at the place of its first add.
ArrayFromSet(added) ==
    LET first(i) == \A j \in 1..(i - 1) : added[j] # added[i]
        kept == SelectSeq([i \in 1..Len(added) |-> i], first)
    IN  [k \in 1..Len(kept) |-> added[kept[k]]]

\* Whether for...of over TRANSFORMATION_GROUPS[ transformationOrGroup ]
\* throws: the value is truthy and not iterable (a function inherited from
\* Object.prototype).
notIterable(transformationOrGroup) ==
    LET group == TRANSFORMATION_GROUPS(PropertyKey(transformationOrGroup))
    IN  Truthy(group) /\ group.type # "array"

RECURSIVE added(_)
\* The values the loop of expandGroupsAndRemoveDuplicates adds to
\* definedTransformations, in order: the members of a group, or the
\* definition itself.
added(definitions) ==
    IF definitions = <<>> THEN <<>>
    ELSE LET transformationOrGroup == Head(definitions)
             group == TRANSFORMATION_GROUPS(PropertyKey(transformationOrGroup))
         IN  (IF Truthy(group) THEN group.items ELSE <<transformationOrGroup>>)
             \o added(Tail(definitions))

expandGroupsAndRemoveDuplicates(definitions) ==
    IF \E i \in 1..Len(definitions) : notIterable(definitions[i])
    THEN [throws |-> TRUE, value |-> <<>>]
    ELSE [throws |-> FALSE, value |-> ArrayFromSet(added(definitions))]

\* transformation => TRANSFORMATIONS[ transformation ] || transformation
materialize(transformation) ==
    LET found == TRANSFORMATIONS(PropertyKey(transformation))
    IN  IF Truthy(found) THEN found ELSE transformation

\* config.extra || []
orEmpty(v) == IF Truthy(v) THEN v.items ELSE <<>>

\* Mutant: the filter after the expansion is left out.
getConfiguredTransformationsSingleFilter(c) ==
    LET extra == orEmpty(c.extra)
        remove == orEmpty(c.remove)
        configuredNames == filter(c.include.items \o extra, remove)
        expanded == expandGroupsAndRemoveDuplicates(configuredNames)
    IN  IF expanded.throws
        THEN expanded
        ELSE [throws |-> FALSE,
              value |-> [i \in 1..Len(expanded.value) |-> materialize(expanded.value[i])]]

getConfiguredTransformations(c) ==
    LET extra == orEmpty(c.extra)
        remove == orEmpty(c.remove)
        configuredNames == filter(c.include.items \o extra, remove)
        expanded == expandGroupsAndRemoveDuplicates(configuredNames)
    IN  IF expanded.throws
        THEN expanded
        ELSE LET kept == filter(expanded.value, remove)
             IN  [throws |-> FALSE,
                  value |-> [i \in 1..Len(kept) |-> materialize(kept[i])]]

----------------------------------------------------------------------------
(* Strings and regular expressions *)

ToString(v) == IF v.type = "undefined" THEN UndefinedString ELSE v.value

\* String.prototype.slice( begin, end ), offsets from 0; a negative offset
\* counts from the end of the string.
slice(s, begin, end) ==
    LET clamp(k) == IF k < 0 THEN (IF Len(s) + k < 0 THEN 0 ELSE Len(s) + k)
                    ELSE (IF k > Len(s) THEN Len(s) ELSE k)
        from == clamp(begin)
        to == clamp(end)
    IN  IF to <= from THEN <<>> ELSE SubSeq(s, from + 1, to)

\* Mutant: String.prototype.includes in place of endsWith.
endsWithAnywhere(s, searchString) ==
    \E start \in 0..(Len(s) - Len(searchString)) :
        \A k \in 1..Len(searchString) : s[start + k] = searchString[k]

\* String.prototype.endsWith( searchString )
endsWith(s, searchString) ==
    LET start == Len(s) - Len(searchString)
    IN  IF start < 0 THEN FALSE
        ELSE \A k \in 1..Len(searchString) : s[start + k] = searchString[k]

\* The characters \s matches.
WhiteSpace ==
    {" ", "\t", "\n", "\r", "\f", "U+000B", "U+00A0", "U+1680", "U+2000", "U+2001",
     "U+2002", "U+2003", "U+2004", "U+2005", "U+2006", "U+2007", "U+2008", "U+2009",
     "U+200A", "U+2028", "U+2029", "U+202F", "U+205F", "U+3000", "U+FEFF"}

NoMatch == [matched |-> FALSE, index |-> 0, g1 |-> <<>>, g2 |-> <<>>]

\* Mutant: the pattern without its (^|\s) boundary.
matchAtAnyBoundary(q, s, index) ==
    IF /\ index + 2 < Len(s)
       /\ s[index + 1] = q
       /\ s[Len(s)] = q
       /\ \A k \in (index + 2)..(Len(s) - 1) : s[k] # q
    THEN [matched |-> TRUE, index |-> index, g1 |-> <<>>,
          g2 |-> SubSeq(s, index + 2, Len(s) - 1)]
    ELSE NoMatch

\* An attempt to match (^|\s)Q([^Q]+)Q$ with the match starting at offset
\* index (from 0): the first alternative is the start of the text, the second
\* one whitespace character; then the quote, one or more characters other
\* than the quote, the quote, and the end of the text.
matchAt(q, s, index) ==
    LET body(open, g1) ==
            \* open: offset of the opening quote
            IF /\ open + 2 < Len(s)
               /\ s[open + 1] = q
               /\ s[Len(s)] = q
               /\ \A k \in (open + 2)..(Len(s) - 1) : s[k] # q
            THEN [matched |-> TRUE, index |-> index, g1 |-> g1,
                  g2 |-> SubSeq(s, open + 2, Len(s) - 1)]
            ELSE NoMatch
        first == IF index = 0 THEN body(index, <<>>) ELSE NoMatch
        second == IF index < Len(s) /\ s[index + 1] \in WhiteSpace
                  THEN body(index + 1, <<s[index + 1]>>)
                  ELSE NoMatch
    IN  IF first.matched THEN first ELSE second

\* RegExp.prototype.exec: the match at the leftmost offset that has one.
exec(regexp, s) ==
    LET q == regexp.quoteCharacter
        starts == {i \in 0..Len(s) : matchAt(q, s, i).matched}
    IN  IF starts = {} THEN NoMatch
        ELSE matchAt(q, s, CHOOSE i \in starts : \A j \in starts : i <= j)

\* RegExp.prototype.test
test(regexp, s) == exec(regexp, s).matched

RECURSIVE expandTemplate(_, _)
\* The replacement text of String.prototype.replace: $1 and $2 stand for the
\* captured groups.
expandTemplate(template, m) ==
    IF template = <<>> THEN <<>>
    ELSE (CASE Head(template) = "$1" -> m.g1
            [] Head(template) = "$2" -> m.g2
            [] OTHER -> <<Head(template)>>)
         \o expandTemplate(Tail(template), m)

\* message.replace( from, to ) for a RegExp without the g flag: the first
\* match is replaced. The match of a pattern ending in $ ends the text.
replace(message, regexp, template) ==
    LET m == exec(regexp, message)
    IN  IF m.matched
        THEN SubSeq(message, 1, m.index) \o expandTemplate(template, m)
        ELSE message

----------------------------------------------------------------------------
(* init(): the callbacks of one transformation *)

\* const { from, to } = transformation
destructure(transformation) ==
    IF transformation.type = "object"
    THEN [from |-> transformation.from, to |-> transformation.to]
    ELSE [from |-> Undefined, to |-> Undefined]

testCallback(from, t) ==
    IF from.type = "RegExp" THEN test(from, t) ELSE endsWith(t, ToString(from))

\* from.length of an undefined from throws a TypeError.
textReplacer(from, to, message) ==
    IF from.type = "RegExp"
    THEN [throws |-> FALSE, value |-> replace(message, from, to)]
    ELSE IF from.type = "undefined"
         THEN [throws |-> TRUE, value |-> <<>>]
         ELSE [throws |-> FALSE,
               value |-> slice(message, 0, Len(message) - Len(from.value)) \o to]

----------------------------------------------------------------------------
(* Bounds and inputs *)

MaxTyped == 1       \* user text changes in one behaviour
MaxReplaced == 3    \* replacements chained after one user text change
MaxEntries == 4     \* entries of config.include, extra and remove together

\* The characters the user types: those of the catalog's patterns, and d.
Alphabet ==
    {"(", "c", "r", "t", "m", ")", "1", "2", "3", "4", "/", "<", "=", ">", "!",
     "-", ".", " ", "\"", "'", "d"}

\* What the block holds before the user types.
SeedTexts ==
    {<<>>,
     <<"(", "c">>,
     <<"d", "(", "r">>,
     <<"(", "t", "m">>,
     <<"1", "/">>, <<"2", "/">>, <<"d", "3", "/">>,
     <<"<">>, <<">">>, <<"!">>, <<"-">>,
     <<"d", ".", ".">>,
     <<" ", "-", "-">>,
     <<"d", " ", "-", "-", "-">>,
     <<"\"", "c">>,
     <<"d", " ", "\"", "c">>,
     <<"d", "\"", "c">>,
     <<"d", "U+00A0", "\"", "c">>,
     <<"'", "c">>,
     <<"d", "\t", "'", "c", " ", "d">>,
     <<"\"", "c", "\"">>,
     <<"(", "c", ")">>,
     <<"H", "e", " ", "s", "a", "i", "d", " ", "\"", "h", "e", "l", "l", "o">>,
     <<"u", "n", "d", "e", "f", "i", "n", "e">>}

Attributes == {"plain", "bold"}

\* Inline transformation descriptions a configuration may hold: two objects
\* of the same content.
Inline1 == Description("inline1", Str(<<"c", ")">>), <<"d">>)
Inline2 == Description("inline2", Str(<<"c", ")">>), <<"d">>)

\* The entries config.include and config.extra are drawn from: a group
\* name, the name of one of its transformations, a name the catalog does not
\* know, a name Object.prototype knows, and inline descriptions.
ConfigEntries ==
    {Str("mathematical"), Str("one_half"), Str("ellipsis"), Str("constructor"),
     Inline1, Inline2}

RemoveEntries ==
    {Str("mathematical"), Str("one_half"), Str("ellipsis"), Inline1}

\* An optional array of k entries: absent when k = 0.
Optional(S, k) == IF k = 0 THEN {Undefined} ELSE {Array(q) : q \in [1..k -> S]}

Configuration(include, extra, remove) ==
    [include |-> Array(include), extra |-> extra, remove |-> remove]

\* The configuration the constructor defines.
DefaultConfig == Configuration(DEFAULT_TRANSFORMATIONS, Undefined, Undefined)

\* The lengths of include, extra and remove: at most MaxEntries together.
ConfigLengths ==
    {n \in (0..MaxEntries) \X (0..MaxEntries) \X (0..MaxEntries) :
        n[1] + n[2] + n[3] <= MaxEntries}

\* Configurations the matcher is run with besides the default one: two
\* transformations of the same pattern, a name the catalog does not know,
\* and an inline description.
MatchConfigs ==
    {DefaultConfig,
     Configuration(<<Str("quotes_primary"), Str("quotes_primary_pl")>>, Undefined, Undefined),
     Configuration(DEFAULT_TRANSFORMATIONS, Array(<<Str("ellipsis")>>), Undefined),
     Configuration(<<Str("symbols"), Inline1>>, Undefined, Array(<<Str("trademark")>>))}

----------------------------------------------------------------------------
(* The state machine *)

InitWith(seeds, attributes) ==
    /\ configured = <<>>
    /\ watchers = <<>>
    /\ pc = "constructed"
    /\ error = "none"
    /\ text \in seeds
    /\ attrs = [i \in 1..Len(text) |-> "plain"]
    /\ focus = Len(text)
    /\ selAttrs \in attributes
    /\ pending = <<>>
    /\ emitted = <<>>
    /\ typed = 0
    /\ replaced = 0

\* init(): resolves the configuration and creates one watcher, with its
\* callbacks and its matched:data listener, per transformation.
init ==
    /\ pc = "constructed"
    /\ LET r == getConfiguredTransformations(config)
       IN  IF r.throws
           THEN /\ error' = "TypeError"
                /\ pc' = "failed"
                /\ UNCHANGED <<configured, watchers>>
           ELSE /\ configured' = r.value
                /\ watchers' = [i \in 1..Len(r.value) |-> destructure(r.value[i])]
                /\ pc' = "idle"
                /\ UNCHANGED error
    /\ UNCHANGED <<config, text, attrs, focus, selAttrs, pending, emitted, typed, replaced>>

\* TextWatcher._getText: the text of the block before the selection.
getText == SubSeq(text, 1, focus)

\* The user types one character at the selection; the document then fires
\* change:data.
Type(c) ==
    /\ pc = "idle"
    /\ typed < MaxTyped
    /\ text' = SubSeq(text, 1, focus) \o <<c>> \o SubSeq(text, focus + 1, Len(text))
    /\ attrs' = SubSeq(attrs, 1, focus) \o <<selAttrs>> \o SubSeq(attrs, focus + 1, Len(attrs))
    /\ focus' = focus + 1
    /\ typed' = typed + 1
    /\ replaced' = 0
    /\ emitted' = <<>>
    /\ pc' = "change:data"
    /\ UNCHANGED <<config, configured, watchers, error, selAttrs, pending>>

\* The matched:data listener of watcher i, with data.text = t: the change it
\* enqueues, or throws.
listener(i, t) ==
    LET textToInsert == textReplacer(watchers[i].from, watchers[i].to, t)
    IN  [throws |-> textToInsert.throws,
         change |-> [watcher |-> i,
                     focus |-> focus,
                     textToReplaceLength |-> Len(t),
                     textToInsert |-> textToInsert.value]]

\* The watchers evaluate the text before the selection, in the order they
\* were created; a watcher whose testCallback holds fires matched:data, and
\* its listener enqueues a change. An error a listener throws ends the
\* event.
evaluate(t) ==
    LET matches(i) == testCallback(watchers[i].from, t)
        matching == SelectSeq([i \in 1..Len(watchers) |-> i], matches)
        throwing == {k \in 1..Len(matching) : listener(matching[k], t).throws}
        last == IF throwing = {} THEN Len(matching)
                ELSE (CHOOSE k \in throwing : \A l \in throwing : k <= l) - 1
    IN  [throws |-> throwing # {},
         enqueued |-> [k \in 1..last |-> listener(matching[k], t).change]]

\* The document's change:data event.
ChangeData ==
    /\ pc = "change:data"
    /\ LET r == evaluate(getText)
       IN  /\ emitted' = r.enqueued
           /\ pending' = pending \o r.enqueued
           /\ error' = IF r.throws THEN "TypeError" ELSE error
           /\ pc' = IF r.throws THEN "failed"
                    ELSE IF pending \o r.enqueued = <<>> THEN "idle" ELSE "pending"
    /\ UNCHANGED <<config, configured, watchers, text, attrs, focus, selAttrs, typed, replaced>>

\* The first enqueued change runs: model.insertContent of the text, with the
\* selection's attributes, over the range of textToReplaceLength characters
\* before the focus the listener saw; the selection ends after the inserted
\* text. A range that is not in the block makes the model throw and leaves
\* the text as it is. The document then fires change:data.
RunPendingChange ==
    /\ pc = "pending"
    /\ replaced < MaxReplaced
    /\ LET change == Head(pending)
           start == change.focus - change.textToReplaceLength
           end == change.focus
       IN  IF start < 0 \/ end > Len(text)
           THEN /\ error' = "CKEditorError"
                /\ pc' = "failed"
                /\ UNCHANGED <<text, attrs, focus, replaced>>
           ELSE /\ text' = SubSeq(text, 1, start) \o change.textToInsert
                              \o SubSeq(text, end + 1, Len(text))
                /\ attrs' = SubSeq(attrs, 1, start)
                              \o [k \in 1..Len(change.textToInsert) |-> selAttrs]
                              \o SubSeq(attrs, end + 1, Len(attrs))
                /\ focus' = start + Len(change.textToInsert)
                /\ replaced' = replaced + 1
                /\ pc' = "change:data"
                /\ UNCHANGED error
    /\ pending' = Tail(pending)
    /\ UNCHANGED <<config, configured, watchers, selAttrs, emitted, typed>>

NextResolve == init

Next ==
    \/ init
    \/ \E c \in Alphabet : Type(c)
    \/ ChangeData
    \/ RunPendingChange

\* The registry alone, over the configurations.
InitResolve ==
    /\ \E n \in ConfigLengths :
          \E i \in [1..n[1] -> ConfigEntries],
             e \in Optional(ConfigEntries, n[2]),
             r \in Optional(RemoveEntries, n[3]) :
              config = Configuration(i, e, r)
    /\ InitWith({<<>>}, {"plain"})

SpecResolve == InitResolve /\ [][NextResolve]_vars

\* The plugin under the default configuration.
Init == config = DefaultConfig /\ InitWith(SeedTexts, Attributes)

Spec == Init /\ [][Next]_vars

\* The plugin under the other configurations.
InitMatch == config \in MatchConfigs /\ InitWith(SeedTexts, Attributes)

SpecMatch == InitMatch /\ [][Next]_vars

----------------------------------------------------------------------------
(* The claims *)

\* include followed by extra, and remove, as configured.
Entries == config.include.items \o (IF config.extra.type = "array" THEN config.extra.items ELSE <<>>)
Removed == IF config.remove.type = "array" THEN config.remove.items ELSE <<>>

IsRule(e, name) == e.type = "object" /\ e.ref = name
IsGroupName(e) == e.type = "string" /\ e.value \in Range(GroupNames)
IsRuleName(e) == e.type = "string" /\ e.value \in Range(TransformationNames)

C4_GroupRemoval ==
    pc = "idle" =>
        \A k \in 1..Len(Removed) :
            IsGroupName(Removed[k]) =>
                \A m \in Range(GroupMembers(Removed[k].value)) :
                    \A j \in 1..Len(configured) : ~IsRule(configured[j], m)

\* The identity of a resolved entry: the object, or the name.
Identity(e) == IF e.type = "object" THEN <<"object", e.ref>> ELSE <<"string", e.value>>

\* C5: the list getConfiguredTransformations returns holds no two entries of
\* the same identity.
C5_DuplicateFree ==
    pc = "idle" =>
        \A i, j \in 1..Len(configured) :
            i # j => Identity(configured[i]) # Identity(configured[j])

\* C5's case: one_half listed through its group, by name and again in extra.
C5_Witness ==
    /\ pc = "idle"
    /\ config.include.items = <<Str("mathematical"), Str("one_half")>>
    /\ config.extra = Array(<<Str("one_half")>>)
    /\ Len(configured) = 10

RECURSIVE ExpandedInPlace(_)
\* Entries with each group name replaced, in place, by its members.
ExpandedInPlace(entries) ==
    IF entries = <<>> THEN <<>>
    ELSE (IF IsGroupName(Head(entries))
          THEN [i \in 1..Len(GroupMembers(Head(entries).value)) |->
                    Str(GroupMembers(Head(entries).value)[i])]
          ELSE <<Head(entries)>>)
         \o ExpandedInPlace(Tail(entries))

\* The configured entry a resolved entry stands for.
SourceOf(e) == IF e.type = "object" /\ e.ref \in Range(TransformationNames) THEN Str(e.ref) ELSE e

FirstOccurrence(x, s) == CHOOSE i \in 1..Len(s) : s[i] = x /\ \A j \in 1..(i - 1) : s[j] # x

\* C6: the resolved list is ordered by first occurrence in include followed
\* by extra with the groups expanded in place, whatever is removed, and
\* include = [ 'mathematical' ] alone resolves to the ten members in the
\* catalog's order.
C6_ResolutionOrder ==
    pc = "idle" =>
        /\ config = Configuration(<<Str("mathematical")>>, Undefined, Undefined) =>
              [i \in 1..Len(configured) |-> configured[i].ref] =
                 <<"one_half", "one_third", "two_thirds", "one_forth", "three_quarters",
                   "less_then_or_equal", "greater_then_or_equal", "not_equal",
                   "arrow_left", "arrow_right">>
        /\ \A i, j \in 1..Len(configured) :
              i < j => FirstOccurrence(SourceOf(configured[i]), ExpandedInPlace(Entries))
                        < FirstOccurrence(SourceOf(configured[j]), ExpandedInPlace(Entries))

IsUnknownName(e) == e.type = "string" /\ ~IsGroupName(e) /\ ~IsRuleName(e)

\* C7: with a name in include or extra that is neither a group nor a
\* built-in transformation, nothing ever throws, at init() or at a text
\* change, and the resolved list holds the name as it was given.
C7_UnknownNamesPermissive ==
    (\E k \in 1..Len(Entries) : IsUnknownName(Entries[k])) =>
        /\ error = "none"
        /\ pc # "failed"
        /\ pc # "constructed" =>
              \A k \in 1..Len(Entries) :
                  IsUnknownName(Entries[k]) => Entries[k] \in Range(configured)

\* C1: one change:data event enqueues at most one replacement, whatever the
\* configured transformations.
C1_FirstMatchWins == Len(emitted) <= 1

\* C3: the replacement a literal transformation enqueues covers Len(from)
\* characters before the focus and inserts its to.
C3_LiteralRange ==
    \A k \in 1..Len(emitted) :
        LET w == watchers[emitted[k].watcher]
        IN  w.from.type = "string" =>
                /\ emitted[k].textToReplaceLength = Len(w.from.value)
                /\ emitted[k].textToInsert = w.to

\* Whether watcher i is the one of the named built-in transformation.
WatcherOf(i, name) == IsRule(configured[i], name)

\* t ends with a straight double-quoted span whose opening quote, at j, is
\* at the start of t or follows a whitespace character.
QuotedSpanAt(t, j) ==
    /\ j \in 1..(Len(t) - 2)
    /\ t[j] = "\"" /\ t[Len(t)] = "\""
    /\ \A k \in (j + 1)..(Len(t) - 1) : t[k] # "\""
    /\ j = 1 \/ t[j - 1] \in WhiteSpace

EndsWithQuotedSpan(t) == \E j \in 1..Len(t) : QuotedSpanAt(t, j)

\* The text before the boundary, the boundary, and the content in U+201C
\* and U+201D.
Paired(t, j) ==
    SubSeq(t, 1, j - 1) \o <<"U+201C">> \o SubSeq(t, j + 1, Len(t) - 1) \o <<"U+201D">>

\* C8: quotes_primary matches the text before the selection exactly when it
\* ends with a double-quoted span after the start or a whitespace character,
\* and its replacement leaves the text before the span and the boundary,
\* and the content between U+201C and U+201D.
C8_QuotePairing ==
    [][/\ pc = "change:data" =>
            ((\E k \in 1..Len(emitted') : WatcherOf(emitted'[k].watcher, "quotes_primary"))
                <=> EndsWithQuotedSpan(getText))
       /\ (pc = "pending" /\ pc' = "change:data"
             /\ WatcherOf(Head(pending).watcher, "quotes_primary")) =>
            \E j \in 1..Len(text) : QuotedSpanAt(text, j) /\ text' = Paired(text, j)
      ]_vars

\* C8's case: He said "hello" has become He said, U+201C, hello, U+201D.
C8_Witness ==
    /\ replaced = 1
    /\ pc = "idle"
    /\ text = <<"H", "e", " ", "s", "a", "i", "d", " ", "U+201C",
                "h", "e", "l", "l", "o", "U+201D">>

HasSuffix(t, suffix) ==
    /\ Len(suffix) <= Len(t)
    /\ SubSeq(t, Len(t) - Len(suffix) + 1, Len(t)) = suffix

\* Whether the pattern from, a literal or a quotes pattern, matches t.
PatternMatches(from, t) ==
    \/ from.type = "string" /\ HasSuffix(t, from.value)
    \/ /\ from.type = "RegExp"
       /\ \E j \in 1..(Len(t) - 2) :
             /\ t[j] = from.quoteCharacter /\ t[Len(t)] = from.quoteCharacter
             /\ \A k \in (j + 1)..(Len(t) - 1) : t[k] # from.quoteCharacter
             /\ j = 1 \/ t[j - 1] \in WhiteSpace

\* C9: a change:data event whose text before the selection matches no
\* configured transformation enqueues nothing and leaves the text, its
\* attributes and the selection as they were.
C9_NoMatchNoOp ==
    [][(pc = "change:data"
          /\ \A i \in 1..Len(configured) :
                configured[i].type = "object" => ~PatternMatches(configured[i].from, getText))
       => /\ emitted' = <<>>
          /\ pending' = pending
          /\ text' = text /\ attrs' = attrs /\ focus' = focus /\ selAttrs' = selAttrs
      ]_vars

\* C9's case: a space typed after (c) under the default configuration.
C9_Witness ==
    /\ config = DefaultConfig
    /\ pc = "idle"
    /\ typed = 1
    /\ text = <<"(", "c", ")", " ">>
    /\ emitted = <<>>
    /\ replaced = 0

\* C10: under the default configuration, with its 18 transformations, a
\* change:data event enqueues at most one replacement, and the event that
\* follows a replacement enqueues none: one user text change is followed by
\* at most one replacement.
C10_DefaultAtMostOneReplacement ==
    /\ pc \notin {"constructed", "failed"} => Len(configured) = 18
    /\ Len(emitted) <= 1
    /\ Len(pending) <= 1
    /\ replaced <= 1
    /\ (replaced = 1 /\ pc # "change:data") => (emitted = <<>> /\ pending = <<>>)

\* C10's case: the en dash replacement has run and the text it left, ending
\* in a space, was evaluated again.
C10_Witness ==
    /\ replaced = 1
    /\ pc = "idle"
    /\ text = <<" ", "U+2013", " ">>

====
